---- MODULE Spec2Model ----
(***************************************************************************)
(* A model of pinsteel: the account Validation rule builder and its run,   *)
(* the zero-copy cast of account bytes (AccountDeserialize), the typed     *)
(* views of AsAccount, and the CreateProgramAccount lifecycle operation.   *)
(*                                                                         *)
(* A Pubkey is a sequence of numbers.  The sha256 digest of the PDA hash   *)
(* input is modelled symbolically and collision-free: the digest of an     *)
(* input is the number 256 (no byte) followed by the concatenated input.   *)
(***************************************************************************)
EXTENDS Integers, Sequences, FiniteSets, TLC

VARIABLES
    ai,       \* the AccountInfo handed to Validation::run
    v,        \* the Validation builder under construction
    nset,     \* number of setter calls made on the builder
    runRes,   \* outcome of the last Validation::run
    grp,      \* the rule set of the current group when the rules are split
    compRes,  \* verdicts of the combined rule set and of the split rule sets
    cast,     \* a typed record, a buffer and the outcome of the last cast
    views,    \* the typed views (Ref<T> / RefMut<T>) currently held
    accRes,   \* outcome of the last as_account / as_account_mut
    lc,       \* balances, the pda's length and owner, and the position of
              \* the lifecycle operation in progress
    cpi       \* the runtime calls issued by the lifecycle operation

vars == <<ai, v, nset, runRes, grp, compRes, cast, views, accRes, lc, cpi>>

lifeVars == <<lc, cpi>>

valVars == <<v, nset, runRes, grp, compRes>>

----------------------------------------------------------------------------
(* Bounds of the model *)

MaxSetters == 2     \* setter calls chained on one builder
MaxDataLen == 2     \* length of an account buffer
MaxChain == 3       \* predicates partitioned into rule sets
MaxAddr == 1        \* start address of a buffer
MaxViews == 2       \* views held at a time
MaxRate == 1        \* the rent sysvar's lamports per byte
MaxCloses == 2      \* invocations of Close on one account
MaxLamports == 15   \* the largest balance: u64::MAX, scaled down
MaxEmits == 2       \* events emitted in one run

----------------------------------------------------------------------------
(* Identities and bytes *)

P1 == <<1>>
P2 == <<2>>
SYSVAR_PROGRAM_ID == <<3>>
PDA_MARKER == <<80, 68, 65>>
MAX_SEEDS == 16

Programs == {P1, P2}
ByteVals == {254, 255}

S1 == << <<7>> >>
SLong == [i \in 1..14 |-> <<>>]
SeedSets == {S1, SLong}

NoneVal == <<>>

RECURSIVE Concat(_)
Concat(slices) ==
    IF slices = <<>> THEN <<>> ELSE Head(slices) \o Concat(Tail(slices))

\* sol_sha256 over the list of slices: one digest of their concatenation.
sol_sha256(slices) == <<256>> \o Concat(slices)

Max(a, b) == IF a >= b THEN a ELSE b

----------------------------------------------------------------------------
(* derive_pda *)

derive_pda_no_bump(seeds, program_id, bump_seed) ==
    IF Len(seeds) + 3 > MAX_SEEDS
    THEN [ok |-> FALSE, err |-> "InvalidSeeds", key |-> NoneVal]
    ELSE [ok |-> TRUE, err |-> "",
          key |-> sol_sha256(seeds \o <<program_id, PDA_MARKER>>)]

derive_pda(seeds, program_id, bump_seed) ==
    IF Len(seeds) + 3 > MAX_SEEDS
    THEN [ok |-> FALSE, err |-> "InvalidSeeds", key |-> NoneVal]
    ELSE [ok |-> TRUE, err |-> "",
          key |-> sol_sha256(seeds \o <<bump_seed, program_id, PDA_MARKER>>)]

\* Whether a digest is a point of the signature curve (decided by the
\* runtime; here one fixed digest of the model's universe is on the curve).
OnCurve(key) == key = sol_sha256(S1 \o << <<255>>, P2, PDA_MARKER >>)

\* find_program_address: tries the bumps from 255 downwards and returns the
\* first whose digest is off the curve.
RECURSIVE find_bump(_, _, _)
find_bump(seeds, program_id, bump) ==
    IF bump = 0 \/ ~OnCurve(sol_sha256(seeds \o << <<bump>>, program_id, PDA_MARKER >>))
    THEN bump
    ELSE find_bump(seeds, program_id, bump - 1)

find_program_address(seeds, program_id) ==
    [key |-> sol_sha256(seeds \o << <<find_bump(seeds, program_id, 255)>>,
                                   program_id, PDA_MARKER >>),
     bump |-> find_bump(seeds, program_id, 255)]

----------------------------------------------------------------------------
(* Validation: the builder and its setters *)

ValidationDefault ==
    [is_signer |-> FALSE, is_writable |-> FALSE, is_executable |-> FALSE,
     is_empty |-> FALSE, is_type |-> <<>>, is_program |-> <<>>,
     is_sysvar |-> <<>>, has_address |-> <<>>, has_owner |-> <<>>,
     has_seeds |-> <<>>, has_seeds_with_bump |-> <<>>,
     has_seeds_with_saved_bump |-> <<>>]

set_is_signer(b, must) == [b EXCEPT !.is_signer = must]
set_is_writable(b, must) == [b EXCEPT !.is_writable = must]
set_is_executable(b, must) == [b EXCEPT !.is_executable = must]
set_is_empty(b, must) == [b EXCEPT !.is_empty = must]
set_is_type(b, program_id, discriminator) ==
    [b EXCEPT !.is_type = <<discriminator, program_id>>]
set_is_program(b, program_id) == [b EXCEPT !.is_program = <<program_id>>]
set_is_sysvar(b, sysvar_id) == [b EXCEPT !.is_sysvar = <<sysvar_id>>]
set_has_address(b, address) == [b EXCEPT !.has_address = <<address>>]

set_has_owner_into_address(b, program_id) ==
    [b EXCEPT !.has_address = <<program_id>>]

set_has_owner(b, program_id) == [b EXCEPT !.has_owner = <<program_id>>]
set_has_seeds(b, seeds, program_id) ==
    [b EXCEPT !.has_seeds = <<seeds, program_id>>]
set_has_seeds_with_bump(b, seeds, program_id, bump) ==
    [b EXCEPT !.has_seeds_with_bump = <<seeds, program_id, bump>>]
set_has_seeds_with_saved_bump(b, seeds, program_id) ==
    [b EXCEPT !.has_seeds_with_saved_bump = <<seeds, program_id>>]

----------------------------------------------------------------------------
(* Validation::run, one operator per predicate block.  Each returns        *)
(*   res    "Ok", the ProgramError returned, or "panic"                    *)
(*   eval   whether the predicate was configured (its block entered)       *)
(*   hashes the number of address derivations computed                     *)
(*   reads  the buffer indices (from 0) the block read                     *)

Out(res, eval, hashes, reads) ==
    [res |-> res, eval |-> eval, hashes |-> hashes, reads |-> reads]

Skip == Out("Ok", FALSE, 0, {})

chk_is_signer(b, a) ==
    IF ~b.is_signer THEN Skip
    ELSE IF ~a.is_signer THEN Out("MissingRequiredSignature", TRUE, 0, {})
    ELSE Out("Ok", TRUE, 0, {})

chk_is_writable(b, a) ==
    IF ~b.is_writable THEN Skip
    ELSE IF ~a.is_writable THEN Out("InvalidAccountData", TRUE, 0, {})
    ELSE Out("Ok", TRUE, 0, {})

chk_is_executable(b, a) ==
    IF ~b.is_executable THEN Skip
    ELSE IF ~a.executable THEN Out("InvalidAccountData", TRUE, 0, {})
    ELSE Out("Ok", TRUE, 0, {})

chk_is_empty(b, a) ==
    IF ~b.is_empty THEN Skip
    ELSE IF Len(a.data) # 0 THEN Out("AccountAlreadyInitialized", TRUE, 0, {})
    ELSE Out("Ok", TRUE, 0, {})

\* try_borrow_data()?[0]: the borrow fails while the data is mutably
\* borrowed; indexing an empty buffer panics.
chk_is_type(b, a) ==
    IF b.is_type = <<>> THEN Skip
    ELSE LET discriminator == b.is_type[1]
             program_id == b.is_type[2]
         IN  IF a.owner # program_id
             THEN Out("InvalidAccountOwner", TRUE, 0, {})
             ELSE IF a.mut_borrowed
             THEN Out("AccountBorrowFailed", TRUE, 0, {})
             ELSE IF Len(a.data) = 0
             THEN Out("panic", TRUE, 0, {0})
             ELSE IF a.data[1] # discriminator
             THEN Out("InvalidAccountData", TRUE, 0, {0})
             ELSE Out("Ok", TRUE, 0, {0})

chk_is_program(b, a) ==
    IF b.is_program = <<>> THEN Skip
    ELSE IF a.key # b.is_program[1] THEN Out("InvalidAccountOwner", TRUE, 0, {})
    ELSE IF ~a.executable THEN Out("InvalidAccountData", TRUE, 0, {})
    ELSE Out("Ok", TRUE, 0, {})

chk_is_sysvar(b, a) ==
    IF b.is_sysvar = <<>> THEN Skip
    ELSE IF a.owner # SYSVAR_PROGRAM_ID
    THEN Out("InvalidAccountOwner", TRUE, 0, {})
    ELSE IF a.key # b.is_sysvar[1] THEN Out("InvalidAccountData", TRUE, 0, {})
    ELSE Out("Ok", TRUE, 0, {})

chk_has_address(b, a) ==
    IF b.has_address = <<>> THEN Skip
    ELSE IF a.key # b.has_address[1] THEN Out("InvalidAccountData", TRUE, 0, {})
    ELSE Out("Ok", TRUE, 0, {})

chk_has_owner(b, a) ==
    IF b.has_owner = <<>> THEN Skip
    ELSE IF a.owner # b.has_owner[1] THEN Out("InvalidAccountOwner", TRUE, 0, {})
    ELSE Out("Ok", TRUE, 0, {})

chk_has_seeds(b, a) ==
    IF b.has_seeds = <<>> THEN Skip
    ELSE LET pda == find_program_address(b.has_seeds[1], b.has_seeds[2]).key
         IN  IF a.key # pda THEN Out("InvalidSeeds", TRUE, 1, {})
             ELSE Out("Ok", TRUE, 1, {})

chk_has_seeds_with_bump(b, a) ==
    IF b.has_seeds_with_bump = <<>> THEN Skip
    ELSE LET seeds == b.has_seeds_with_bump[1]
             pid == b.has_seeds_with_bump[2]
             bump == b.has_seeds_with_bump[3]
         IN  IF Len(a.data) = 0 \/ Len(a.data) < 2
             THEN Out("InvalidAccountData", TRUE, 0, {})
             ELSE LET d == derive_pda(seeds, pid, <<bump>>)
                  IN  IF ~d.ok THEN Out(d.err, TRUE, 0, {})
                      ELSE IF a.key # d.key THEN Out("InvalidSeeds", TRUE, 1, {})
                      ELSE Out("Ok", TRUE, 1, {})

chk_has_seeds_with_saved_bump(b, a) ==
    IF b.has_seeds_with_saved_bump = <<>> THEN Skip
    ELSE LET seeds == b.has_seeds_with_saved_bump[1]
             pid == b.has_seeds_with_saved_bump[2]
         IN  IF a.owner # pid THEN Out("InvalidAccountOwner", TRUE, 0, {})
             ELSE IF Len(a.data) = 0 \/ Len(a.data) < 2
             THEN Out("InvalidAccountData", TRUE, 0, {})
             ELSE IF a.mut_borrowed
             THEN Out("AccountBorrowFailed", TRUE, 0, {})
             ELSE LET d == derive_pda(seeds, pid, <<a.data[2]>>)
                  IN  IF ~d.ok THEN Out(d.err, TRUE, 0, {1})
                      ELSE IF a.key # d.key
                      THEN Out("InvalidSeeds", TRUE, 1, {1})
                      ELSE Out("Ok", TRUE, 1, {1})

\* The order of the blocks in the body of run.
Order ==
    <<"is_signer", "is_writable", "is_executable", "is_empty", "is_type",
      "is_program", "is_sysvar", "has_address", "has_owner", "has_seeds",
      "has_seeds_with_bump", "has_seeds_with_saved_bump">>

\* What each block of run does on account a, in the order of the body.
Blocks(b, a) ==
    <<chk_is_signer(b, a), chk_is_writable(b, a), chk_is_executable(b, a),
      chk_is_empty(b, a), chk_is_type(b, a), chk_is_program(b, a),
      chk_is_sysvar(b, a), chk_has_address(b, a), chk_has_owner(b, a),
      chk_has_seeds(b, a), chk_has_seeds_with_bump(b, a),
      chk_has_seeds_with_saved_bump(b, a)>>

Only(S) == CHOOSE x \in S : TRUE

\* The body of run: the blocks are executed in Order up to and including
\* the first one that does not end Ok (its early return, or its panic); the
\* blocks after it are not executed and contribute nothing.
RunUpTo(o, last) ==
    [res |-> o[last].res,
     trail |-> SelectSeq(SubSeq(Order, 1, last),
                         LAMBDA p : \E i \in 1..last : Order[i] = p /\ o[i].eval),
     hashes |-> Cardinality({i \in 1..last : o[i].hashes > 0}),
     reads |-> UNION {o[i].reads : i \in 1..last}]

FirstReturn(o) ==
    IF \A i \in 1..Len(o) : o[i].res = "Ok" THEN Len(o)
    ELSE CHOOSE i \in 1..Len(o) :
            o[i].res # "Ok" /\ \A j \in 1..(i - 1) : o[j].res = "Ok"

run(b, a) ==
    Only({Only({RunUpTo(o, last) : last \in {FirstReturn(o)}}) : o \in {Blocks(b, a)}})

----------------------------------------------------------------------------
(* AccountDeserialize: the zero-copy cast.  A typed record T is given by   *)
(* size_of::<T>(), align_of::<T>() and T::discriminator(); a buffer by its *)
(* bytes and its start address.  The result carries the message traced,    *)
(* which names the check that failed, and the buffer indices read.         *)

CastOut(res, msg, reads) == [res |-> res, msg |-> msg, reads |-> reads]

try_from_bytes_prefix(T, data, addr) ==
    IF Len(data) < T.size
    THEN CastOut("InvalidAccountData", "Account has wrong length", {})
    ELSE IF Len(data) = 0
    THEN CastOut("panic", "", {0})
    ELSE IF T.disc # data[1]
    THEN CastOut("InvalidAccountData", "Account has wrong discriminator", {0})
    ELSE IF addr % T.align # 0
    THEN CastOut("InvalidAccountData", "Account has wrong alignment", {0})
    ELSE CastOut("Ok", "", {0})

try_from_bytes(T, data, addr) ==
    IF Len(data) # T.size
    THEN CastOut("InvalidAccountData", "Account has wrong length", {})
    ELSE IF Len(data) = 0
    THEN CastOut("panic", "", {0})
    ELSE IF T.disc # data[1]
    THEN CastOut("InvalidAccountData", "Account has wrong discriminator", {0})
    ELSE IF addr % T.align # 0
    THEN CastOut("InvalidAccountData", "Account has wrong alignment", {0})
    ELSE CastOut("Ok", "", {0})

try_from_bytes_mut(T, data, addr) ==
    IF Len(data) # T.size
    THEN CastOut("InvalidAccountData", "Account has wrong length", {})
    ELSE IF Len(data) = 0
    THEN CastOut("panic", "", {0})
    ELSE IF T.disc # data[1]
    THEN CastOut("InvalidAccountData", "Account has wrong discriminator", {0})
    ELSE IF addr % T.align # 0
    THEN CastOut("InvalidAccountData", "Account has wrong alignment", {0})
    ELSE CastOut("Ok", "", {0})

----------------------------------------------------------------------------
(* The accounts and rule arguments the model draws from *)

DataSet == UNION {[1..n -> ByteVals] : n \in 0..MaxDataLen}

PdaKeys == {derive_pda(S1, p, <<b>>).key : p \in Programs, b \in ByteVals}

AccountKeys == Programs \cup PdaKeys

\* Accounts that differ in identity, owner, buffer and borrow state (all
\* flags set), and accounts that differ in their flags.
BufferAccounts ==
    [key : AccountKeys, owner : Programs \cup {SYSVAR_PROGRAM_ID},
     is_signer : {TRUE}, is_writable : {TRUE}, executable : {TRUE},
     data : DataSet, mut_borrowed : BOOLEAN]

FlagAccounts ==
    [key : {P1}, owner : {P1},
     is_signer : BOOLEAN, is_writable : BOOLEAN, executable : BOOLEAN,
     data : {<<>>, <<254, 255>>}, mut_borrowed : {FALSE}]

AccountSet == BufferAccounts \cup FlagAccounts

NoRun == [done |-> FALSE, rules |-> ValidationDefault, res |-> "none",
          trail |-> <<>>, hashes |-> 0, reads |-> {}]

NoGroup == [rules |-> ValidationDefault, n |-> 0, accept |-> TRUE,
            groups |-> 0, kinds |-> {}, dup |-> FALSE]

NoComp == [done |-> FALSE, combined |-> FALSE, split |-> FALSE]

\* The typed records: a size of at least one byte (byte 0 is the
\* discriminator) that is a multiple of the alignment.
Types ==
    {T \in [size : 1..MaxDataLen, align : {1, 2}, disc : ByteVals] :
        T.size % T.align = 0}

NoType == [size |-> 1, align |-> 1, disc |-> 254]

NoCast == [T |-> NoType, data |-> <<>>, addr |-> 0, done |-> FALSE,
           op |-> "none", res |-> "none", msg |-> "", reads |-> {}]

SYSTEM_PROGRAM_ID == <<0>>

NoLife == [pc |-> "idle", payer |-> 0, pda |-> 0, len |-> 0,
           owner |-> SYSTEM_PROGRAM_ID, rate |-> 0, payer0 |-> 0, pda0 |-> 0,
           space |-> 0, new_owner |-> SYSTEM_PROGRAM_ID, res |-> "none"]

NoAccess == [op |-> "none", T |-> NoType, program |-> P1, res |-> "none",
             borrowed |-> FALSE, casted |-> FALSE]

----------------------------------------------------------------------------
(* Actions of the validation engine *)

Chain(b) ==
    /\ ~runRes.done
    /\ nset < MaxSetters
    /\ v' = b
    /\ nset' = nset + 1
    /\ UNCHANGED <<ai, runRes, grp, compRes, cast, views, accRes, lifeVars>>

IsSigner == \E must \in BOOLEAN : Chain(set_is_signer(v, must))
IsWritable == \E must \in BOOLEAN : Chain(set_is_writable(v, must))
IsExecutable == \E must \in BOOLEAN : Chain(set_is_executable(v, must))
IsEmpty == \E must \in BOOLEAN : Chain(set_is_empty(v, must))
IsType == \E p \in Programs, d \in ByteVals : Chain(set_is_type(v, p, d))
IsProgram == \E p \in Programs : Chain(set_is_program(v, p))
IsSysvar == \E k \in Programs : Chain(set_is_sysvar(v, k))
HasAddress == \E k \in Programs : Chain(set_has_address(v, k))
HasOwner == \E p \in Programs : Chain(set_has_owner(v, p))
HasSeeds == \E s \in SeedSets, p \in Programs : Chain(set_has_seeds(v, s, p))
HasSeedsWithBump ==
    \E s \in SeedSets, p \in Programs, b \in ByteVals :
        Chain(set_has_seeds_with_bump(v, s, p, b))
HasSeedsWithSavedBump ==
    \E s \in SeedSets, p \in Programs :
        Chain(set_has_seeds_with_saved_bump(v, s, p))

\* run(self, ai): consumes the builder.
Run ==
    /\ ~runRes.done
    /\ \E r \in {run(v, ai)} :
           runRes' = [done |-> TRUE, rules |-> v, res |-> r.res,
                      trail |-> r.trail, hashes |-> r.hashes, reads |-> r.reads]
    /\ v' = ValidationDefault
    /\ UNCHANGED <<ai, nset, grp, compRes, cast, views, accRes, lifeVars>>

InitRun ==
    /\ ai \in AccountSet
    /\ v = ValidationDefault
    /\ nset = 0
    /\ runRes = NoRun
    /\ grp = NoGroup
    /\ compRes = NoComp
    /\ cast = NoCast
    /\ views = <<>>
    /\ accRes = NoAccess
    /\ lc = NoLife
    /\ cpi = <<>>

NextRun ==
    \/ IsSigner \/ IsWritable \/ IsExecutable \/ IsEmpty \/ IsType
    \/ IsProgram \/ IsSysvar \/ HasAddress \/ HasOwner \/ HasSeeds
    \/ HasSeedsWithBump \/ HasSeedsWithSavedBump
    \/ Run

SpecRun == InitRun /\ [][NextRun]_vars

\* The rule sets made of the address, owner and seeds predicates.
NextDerive ==
    \/ HasAddress \/ HasOwner \/ HasSeeds \/ HasSeedsWithBump
    \/ HasSeedsWithSavedBump
    \/ Run

SpecDerive == InitRun /\ [][NextDerive]_vars

----------------------------------------------------------------------------
(* Splitting a conjunction of predicates into several rule sets: every     *)
(* setter call is chained on the combined builder v and on the builder of  *)
(* the current group; RunGroup runs the group's rule set and starts the    *)
(* next group; RunCombined runs the last group and the combined rule set.  *)

ComposeCalls ==
    {<<"is_signer", TRUE>>, <<"is_signer", FALSE>>, <<"is_writable", TRUE>>,
     <<"is_executable", TRUE>>, <<"is_empty", TRUE>>,
     <<"is_type", P1, 254>>, <<"is_program", P1>>, <<"is_sysvar", P1>>,
     <<"has_address", P1>>, <<"has_address", P2>>, <<"has_owner", P1>>,
     <<"has_seeds", S1, P1>>, <<"has_seeds_with_bump", S1, P1, 255>>,
     <<"has_seeds_with_saved_bump", S1, P1>>}

Apply(b, call) ==
    CASE call[1] = "is_signer" -> set_is_signer(b, call[2])
      [] call[1] = "is_writable" -> set_is_writable(b, call[2])
      [] call[1] = "is_executable" -> set_is_executable(b, call[2])
      [] call[1] = "is_empty" -> set_is_empty(b, call[2])
      [] call[1] = "is_type" -> set_is_type(b, call[2], call[3])
      [] call[1] = "is_program" -> set_is_program(b, call[2])
      [] call[1] = "is_sysvar" -> set_is_sysvar(b, call[2])
      [] call[1] = "has_address" -> set_has_address(b, call[2])
      [] call[1] = "has_owner" -> set_has_owner(b, call[2])
      [] call[1] = "has_seeds" -> set_has_seeds(b, call[2], call[3])
      [] call[1] = "has_seeds_with_bump" ->
            set_has_seeds_with_bump(b, call[2], call[3], call[4])
      [] call[1] = "has_seeds_with_saved_bump" ->
            set_has_seeds_with_saved_bump(b, call[2], call[3])

ChainBoth ==
    \E call \in ComposeCalls :
        /\ ~compRes.done
        /\ nset < MaxChain
        /\ v' = Apply(v, call)
        /\ nset' = nset + 1
        /\ grp' = [grp EXCEPT !.rules = Apply(@, call), !.n = @ + 1,
                              !.kinds = @ \cup {call[1]},
                              !.dup = @ \/ call[1] \in grp.kinds]
        /\ UNCHANGED <<ai, runRes, compRes, cast, views, accRes, lifeVars>>

RunGroup ==
    /\ ~compRes.done
    /\ grp.n > 0
    /\ nset < MaxChain
    /\ \E r \in {run(grp.rules, ai)} :
           grp' = [grp EXCEPT !.rules = ValidationDefault, !.n = 0,
                              !.accept = @ /\ r.res = "Ok",
                              !.groups = @ + 1]
    /\ UNCHANGED <<ai, v, nset, runRes, compRes, cast, views, accRes, lifeVars>>

RunCombined ==
    /\ ~compRes.done
    /\ grp.n > 0
    /\ \E r \in {run(v, ai)}, q \in {run(grp.rules, ai)} :
           /\ runRes' = [done |-> TRUE, rules |-> v, res |-> r.res,
                         trail |-> r.trail, hashes |-> r.hashes,
                         reads |-> r.reads]
           /\ compRes' = [done |-> TRUE, combined |-> r.res = "Ok",
                          split |-> grp.accept /\ q.res = "Ok"]
    /\ UNCHANGED <<ai, v, nset, grp, cast, views, accRes, lifeVars>>

\* The accounts the split rule sets are run on.
ComposeAccounts ==
    {a \in AccountSet :
        /\ ~a.mut_borrowed
        /\ a.owner # P2
        /\ a.key \in Programs \cup {derive_pda(S1, P1, <<255>>).key}
        /\ a.data \in {<<>>, <<254>>, <<254, 255>>, <<255, 254>>}}

InitCompose ==
    /\ ai \in ComposeAccounts
    /\ v = ValidationDefault
    /\ nset = 0
    /\ runRes = NoRun
    /\ grp = NoGroup
    /\ compRes = NoComp
    /\ cast = NoCast
    /\ views = <<>>
    /\ accRes = NoAccess
    /\ lc = NoLife
    /\ cpi = <<>>

NextCompose == ChainBoth \/ RunGroup \/ RunCombined

SpecCompose == InitCompose /\ [][NextCompose]_vars

----------------------------------------------------------------------------
(* The casts applied to a typed record T and a buffer *)

TryFromBytes ==
    /\ \E r \in {try_from_bytes(cast.T, cast.data, cast.addr)} :
           cast' = [cast EXCEPT !.done = TRUE, !.op = "try_from_bytes",
                                !.res = r.res, !.msg = r.msg,
                                !.reads = r.reads]
    /\ UNCHANGED <<ai, valVars, views, accRes, lifeVars>>

TryFromBytesMut ==
    /\ \E r \in {try_from_bytes_mut(cast.T, cast.data, cast.addr)} :
           cast' = [cast EXCEPT !.done = TRUE, !.op = "try_from_bytes_mut",
                                !.res = r.res, !.msg = r.msg,
                                !.reads = r.reads]
    /\ UNCHANGED <<ai, valVars, views, accRes, lifeVars>>

InitCast ==
    /\ ai \in {a \in FlagAccounts : a.is_signer /\ a.is_writable /\ a.executable
                                     /\ a.data = <<>>}
    /\ v = ValidationDefault
    /\ nset = 0
    /\ runRes = NoRun
    /\ grp = NoGroup
    /\ compRes = NoComp
    /\ \E T \in Types, data \in DataSet, addr \in 0..MaxAddr :
           cast = [NoCast EXCEPT !.T = T, !.data = data, !.addr = addr]
    /\ views = <<>>
    /\ accRes = NoAccess
    /\ lc = NoLife
    /\ cpi = <<>>

NextCast == TryFromBytes \/ TryFromBytesMut

SpecCast == InitCast /\ [][NextCast]_vars

----------------------------------------------------------------------------
(* AsAccount for AccountInfo.  The account carries the borrow state of its *)
(* data: mut_borrowed while a RefMut is alive, shared counting the Refs.   *)
(* A panic (the unwrap of a failed cast) aborts the program.               *)

AccessAccounts ==
    [key : {P1}, owner : Programs,
     is_signer : {TRUE}, is_writable : {TRUE}, executable : {FALSE},
     data : DataSet, mut_borrowed : {FALSE}, shared : {0}, addr : 0..MaxAddr]

Running == accRes.res # "panic"

View(kind, T, program_id) == [kind |-> kind, T |-> T, program |-> program_id]

AccessOut(op, T, program_id, res, borrowed, casted) ==
    [op |-> op, T |-> T, program |-> program_id, res |-> res,
     borrowed |-> borrowed, casted |-> casted]

\* What as_account does on account a: the result, and the account and the
\* views it leaves.
as_account_unchecked_owner(a, held, T, program_id) ==
    IF a.mut_borrowed
    THEN [out |-> AccessOut("as_account", T, program_id,
                            "AccountBorrowFailed", FALSE, FALSE),
          a |-> a, views |-> held]
    ELSE IF try_from_bytes(T, a.data, a.addr).res # "Ok"
    THEN [out |-> AccessOut("as_account", T, program_id, "panic", TRUE, TRUE),
          a |-> [a EXCEPT !.shared = @ + 1], views |-> held]
    ELSE [out |-> AccessOut("as_account", T, program_id, "Ok", TRUE, TRUE),
          a |-> [a EXCEPT !.shared = @ + 1],
          views |-> Append(held, View("shared", T, program_id))]

as_account(a, held, T, program_id) ==
    IF a.owner # program_id
    THEN [out |-> AccessOut("as_account", T, program_id,
                            "InvalidAccountOwner", FALSE, FALSE),
          a |-> a, views |-> held]
    ELSE IF a.mut_borrowed
    THEN [out |-> AccessOut("as_account", T, program_id,
                            "AccountBorrowFailed", FALSE, FALSE),
          a |-> a, views |-> held]
    ELSE IF try_from_bytes(T, a.data, a.addr).res # "Ok"
    THEN [out |-> AccessOut("as_account", T, program_id, "panic", TRUE, TRUE),
          a |-> [a EXCEPT !.shared = @ + 1], views |-> held]
    ELSE [out |-> AccessOut("as_account", T, program_id, "Ok", TRUE, TRUE),
          a |-> [a EXCEPT !.shared = @ + 1],
          views |-> Append(held, View("shared", T, program_id))]

as_account_mut_shared_allowed(a, held, T, program_id) ==
    IF a.owner # program_id
    THEN [out |-> AccessOut("as_account_mut", T, program_id,
                            "InvalidAccountOwner", FALSE, FALSE),
          a |-> a, views |-> held]
    ELSE IF a.mut_borrowed
    THEN [out |-> AccessOut("as_account_mut", T, program_id,
                            "AccountBorrowFailed", FALSE, FALSE),
          a |-> a, views |-> held]
    ELSE IF try_from_bytes_mut(T, a.data, a.addr).res # "Ok"
    THEN [out |-> AccessOut("as_account_mut", T, program_id, "panic", TRUE, TRUE),
          a |-> [a EXCEPT !.mut_borrowed = TRUE], views |-> held]
    ELSE [out |-> AccessOut("as_account_mut", T, program_id, "Ok", TRUE, TRUE),
          a |-> [a EXCEPT !.mut_borrowed = TRUE],
          views |-> Append(held, View("mut", T, program_id))]

as_account_mut(a, held, T, program_id) ==
    IF a.owner # program_id
    THEN [out |-> AccessOut("as_account_mut", T, program_id,
                            "InvalidAccountOwner", FALSE, FALSE),
          a |-> a, views |-> held]
    ELSE IF a.mut_borrowed \/ a.shared > 0
    THEN [out |-> AccessOut("as_account_mut", T, program_id,
                            "AccountBorrowFailed", FALSE, FALSE),
          a |-> a, views |-> held]
    ELSE IF try_from_bytes_mut(T, a.data, a.addr).res # "Ok"
    THEN [out |-> AccessOut("as_account_mut", T, program_id, "panic", TRUE, TRUE),
          a |-> [a EXCEPT !.mut_borrowed = TRUE], views |-> held]
    ELSE [out |-> AccessOut("as_account_mut", T, program_id, "Ok", TRUE, TRUE),
          a |-> [a EXCEPT !.mut_borrowed = TRUE],
          views |-> Append(held, View("mut", T, program_id))]

AsAccount ==
    /\ Running
    /\ Len(views) < MaxViews
    /\ \E T \in Types, program_id \in Programs :
           \E r \in {as_account(ai, views, T, program_id)} :
               /\ accRes' = r.out
               /\ ai' = r.a
               /\ views' = r.views
    /\ UNCHANGED <<valVars, cast, lifeVars>>

AsAccountMut ==
    /\ Running
    /\ Len(views) < MaxViews
    /\ \E T \in Types, program_id \in Programs :
           \E r \in {as_account_mut(ai, views, T, program_id)} :
               /\ accRes' = r.out
               /\ ai' = r.a
               /\ views' = r.views
    /\ UNCHANGED <<valVars, cast, lifeVars>>

\* Dropping a view releases its borrow of the account data.
Release ==
    /\ Running
    /\ \E i \in 1..Len(views) :
           /\ views' = SubSeq(views, 1, i - 1) \o SubSeq(views, i + 1, Len(views))
           /\ ai' = IF views[i].kind = "mut"
                    THEN [ai EXCEPT !.mut_borrowed = FALSE]
                    ELSE [ai EXCEPT !.shared = @ - 1]
    /\ accRes' = [accRes EXCEPT !.op = "release"]
    /\ UNCHANGED <<valVars, cast, lifeVars>>

\* The holder of a mutable view writes a byte of the record.
WriteView ==
    /\ Running
    /\ \E i \in 1..Len(views), k \in 1..Len(ai.data), b \in ByteVals :
           /\ views[i].kind = "mut"
           /\ ai.data[k] # b
           /\ ai' = [ai EXCEPT !.data[k] = b]
    /\ accRes' = [accRes EXCEPT !.op = "write"]
    /\ UNCHANGED <<valVars, cast, views, lifeVars>>

InitAccess ==
    /\ ai \in AccessAccounts
    /\ v = ValidationDefault
    /\ nset = 0
    /\ runRes = NoRun
    /\ grp = NoGroup
    /\ compRes = NoComp
    /\ cast = NoCast
    /\ views = <<>>
    /\ accRes = NoAccess
    /\ lc = NoLife
    /\ cpi = <<>>

NextAccess == AsAccount \/ AsAccountMut \/ Release \/ WriteView

SpecAccess == InitAccess /\ [][NextAccess]_vars

----------------------------------------------------------------------------
(* CreateProgramAccount::invoke_signed.  Each call into the runtime is one *)
(* step; a call fails when the payer cannot fund it or when the runtime    *)
(* rejects it for another reason, and its error is what the call returns.  *)

\* Rent::minimum_balance: (ACCOUNT_STORAGE_OVERHEAD + space) * rate.
minimum_balance(rate, space) == (128 + space) * rate

saturating_sub(a, b) == IF a >= b THEN a - b ELSE 0

required_lamports_whole(rate, space, balance) ==
    Max(minimum_balance(rate, space), 1)

required_lamports_no_floor(rate, space, balance) ==
    saturating_sub(minimum_balance(rate, space), balance)

required_lamports(rate, space, balance) ==
    saturating_sub(Max(minimum_balance(rate, space), 1), balance)

Call(name, lamports, space, owner, err) ==
    [call |-> name, lamports |-> lamports, space |-> space, owner |-> owner,
     err |-> err]

\* The errors a call moving `lamports` from the payer can return ("" = Ok).
FundedErrs(payer, lamports) ==
    IF payer < lamports THEN {"InsufficientFunds"} ELSE {"", "HostError"}

PlainErrs == {"", "HostError"}

\* `?` on the result of a call: go on, or return the error.
after_call_ignoring_error(err, next) == next

after_call(err, next) == IF err = "" THEN next ELSE "done"

CreateStart ==
    /\ lc.pc = "idle"
    /\ \E space \in 0..MaxDataLen, owner \in Programs :
           lc' = [lc EXCEPT !.space = space, !.new_owner = owner,
                            !.pc = IF lc.pda = 0 THEN "create" ELSE "topup"]
    /\ UNCHANGED <<ai, valVars, cast, views, accRes, cpi>>

\* Rent::get()? fails when the sysvar is unavailable.
CreateRentFails ==
    /\ lc.pc \in {"create", "topup"}
    /\ lc' = [lc EXCEPT !.pc = "done", !.res = "UnsupportedSysvar"]
    /\ UNCHANGED <<ai, valVars, cast, views, accRes, cpi>>

InvokeCreateAccount ==
    /\ lc.pc = "create"
    /\ \E m \in {Max(minimum_balance(lc.rate, lc.space), 1)} :
       \E err \in FundedErrs(lc.payer, m) :
           /\ cpi' = Append(cpi, Call("create", m, lc.space, lc.new_owner, err))
           /\ lc' = IF err = ""
                    THEN [lc EXCEPT !.payer = @ - m, !.pda = @ + m,
                                    !.len = lc.space, !.owner = lc.new_owner,
                                    !.pc = "done", !.res = "Ok"]
                    ELSE [lc EXCEPT !.pc = "done", !.res = err]
    /\ UNCHANGED <<ai, valVars, cast, views, accRes>>

CreateNoTopUp ==
    /\ lc.pc = "topup"
    /\ required_lamports(lc.rate, lc.space, lc.pda) = 0
    /\ lc' = [lc EXCEPT !.pc = "allocate"]
    /\ UNCHANGED <<ai, valVars, cast, views, accRes, cpi>>

InvokeTransfer ==
    /\ lc.pc = "topup"
    /\ \E req \in {required_lamports(lc.rate, lc.space, lc.pda)} :
           /\ req > 0
           /\ \E err \in FundedErrs(lc.payer, req) :
                  /\ cpi' = Append(cpi, Call("transfer", req, 0,
                                             SYSTEM_PROGRAM_ID, err))
                  /\ lc' = IF err = ""
                           THEN [lc EXCEPT !.payer = @ - req, !.pda = @ + req,
                                           !.pc = after_call(err, "allocate")]
                           ELSE [lc EXCEPT !.pc = after_call(err, "allocate"),
                                           !.res = err]
    /\ UNCHANGED <<ai, valVars, cast, views, accRes>>

InvokeAllocate ==
    /\ lc.pc = "allocate"
    /\ \E err \in PlainErrs :
           /\ cpi' = Append(cpi, Call("allocate", 0, lc.space,
                                      SYSTEM_PROGRAM_ID, err))
           /\ lc' = IF err = ""
                    THEN [lc EXCEPT !.len = lc.space,
                                    !.pc = after_call(err, "assign")]
                    ELSE [lc EXCEPT !.pc = after_call(err, "assign"),
                                    !.res = err]
    /\ UNCHANGED <<ai, valVars, cast, views, accRes>>

InvokeAssign ==
    /\ lc.pc = "assign"
    /\ \E err \in PlainErrs :
           /\ cpi' = Append(cpi, Call("assign", 0, 0, lc.new_owner, err))
           /\ lc' = IF err = ""
                    THEN [lc EXCEPT !.owner = lc.new_owner, !.pc = "done",
                                    !.res = "Ok"]
                    ELSE [lc EXCEPT !.pc = "done", !.res = err]
    /\ UNCHANGED <<ai, valVars, cast, views, accRes>>

PayerBalances == {0, 50, 500}
PdaBalances == {0, 1, 128, 129, 300}

InitCreate ==
    /\ ai \in {a \in FlagAccounts : a.is_signer /\ a.is_writable /\ a.executable
                                     /\ a.data = <<>>}
    /\ v = ValidationDefault
    /\ nset = 0
    /\ runRes = NoRun
    /\ grp = NoGroup
    /\ compRes = NoComp
    /\ cast = NoCast
    /\ views = <<>>
    /\ accRes = NoAccess
    /\ \E payer \in PayerBalances, pda \in PdaBalances, rate \in 0..MaxRate,
          owner \in {SYSTEM_PROGRAM_ID, P2} :
           lc = [NoLife EXCEPT !.payer = payer, !.pda = pda, !.rate = rate,
                               !.payer0 = payer, !.pda0 = pda, !.owner = owner]
    /\ cpi = <<>>

NextCreate ==
    \/ CreateStart \/ CreateRentFails \/ InvokeCreateAccount \/ CreateNoTopUp
    \/ InvokeTransfer \/ InvokeAllocate \/ InvokeAssign

SpecCreate == InitCreate /\ [][NextCreate]_vars

----------------------------------------------------------------------------
(* ResizeProgramAccount::invoke.  The owner check, the rent lookup, the    *)
(* top-up transfer and the resize of the buffer are one step each.         *)

\* instructions.rs:116, the guard in front of everything else.
resize_owner_unchecked(owner, program) == TRUE

resize_owner_ok(owner, program) == owner = program

\* AccountInfo::resize: the bytes kept up to the smaller length, growth
\* zero-filled.
resized(data, n) == [i \in 1..n |-> IF i <= Len(data) THEN data[i] ELSE 0]

\* The errors AccountInfo::resize can return ("" = Ok): the buffer is
\* borrowed, or the growth exceeds what the runtime permits in one call.
ResizeErrs(borrowed, len, n) ==
    IF borrowed THEN {"AccountBorrowFailed"}
    ELSE IF n > len THEN {"", "InvalidRealloc"}
    ELSE {""}

NoResize == [pc |-> "idle", payer |-> 0, pda |-> 0, data |-> <<>>,
             owner |-> P1, rate |-> 0, borrowed |-> FALSE, payer0 |-> 0,
             pda0 |-> 0, data0 |-> <<>>, space |-> 0, program |-> P1,
             res |-> "none"]

ResizeStart ==
    /\ lc.pc = "idle"
    /\ \E space \in 0..(MaxDataLen + 1), program \in Programs :
           lc' = IF resize_owner_ok(lc.owner, program)
                 THEN [lc EXCEPT !.space = space, !.program = program,
                                 !.pc = "rent"]
                 ELSE [lc EXCEPT !.space = space, !.program = program,
                                 !.pc = "done", !.res = "IllegalOwner"]
    /\ UNCHANGED <<ai, valVars, cast, views, accRes, cpi>>

\* Rent::get()? fails when the sysvar is unavailable.
ResizeRentFails ==
    /\ lc.pc = "rent"
    /\ lc' = [lc EXCEPT !.pc = "done", !.res = "UnsupportedSysvar"]
    /\ UNCHANGED <<ai, valVars, cast, views, accRes, cpi>>

ResizeNoTopUp ==
    /\ lc.pc = "rent"
    /\ required_lamports(lc.rate, lc.space, lc.pda) = 0
    /\ lc' = [lc EXCEPT !.pc = "resize"]
    /\ UNCHANGED <<ai, valVars, cast, views, accRes, cpi>>

ResizeTransfer ==
    /\ lc.pc = "rent"
    /\ \E req \in {required_lamports(lc.rate, lc.space, lc.pda)} :
           /\ req > 0
           /\ \E err \in FundedErrs(lc.payer, req) :
                  /\ cpi' = Append(cpi, Call("transfer", req, 0,
                                             SYSTEM_PROGRAM_ID, err))
                  /\ lc' = IF err = ""
                           THEN [lc EXCEPT !.payer = @ - req, !.pda = @ + req,
                                           !.pc = after_call(err, "resize")]
                           ELSE [lc EXCEPT !.pc = after_call(err, "resize"),
                                           !.res = err]
    /\ UNCHANGED <<ai, valVars, cast, views, accRes>>

ResizeBuffer ==
    /\ lc.pc = "resize"
    /\ \E err \in ResizeErrs(lc.borrowed, Len(lc.data), lc.space) :
           lc' = IF err = ""
                 THEN [lc EXCEPT !.data = resized(lc.data, lc.space),
                                 !.pc = "done", !.res = "Ok"]
                 ELSE [lc EXCEPT !.pc = "done", !.res = err]
    /\ UNCHANGED <<ai, valVars, cast, views, accRes, cpi>>

InitResize ==
    /\ ai \in {a \in FlagAccounts : a.is_signer /\ a.is_writable /\ a.executable
                                     /\ a.data = <<>>}
    /\ v = ValidationDefault
    /\ nset = 0
    /\ runRes = NoRun
    /\ grp = NoGroup
    /\ compRes = NoComp
    /\ cast = NoCast
    /\ views = <<>>
    /\ accRes = NoAccess
    /\ \E payer \in PayerBalances, pda \in PdaBalances, rate \in 0..MaxRate,
          owner \in Programs, data \in DataSet, borrowed \in BOOLEAN :
           lc = [NoResize EXCEPT !.payer = payer, !.pda = pda, !.rate = rate,
                                 !.payer0 = payer, !.pda0 = pda,
                                 !.owner = owner, !.data = data,
                                 !.data0 = data, !.borrowed = borrowed]
    /\ cpi = <<>>

NextResize ==
    \/ ResizeStart \/ ResizeRentFails \/ ResizeNoTopUp \/ ResizeTransfer
    \/ ResizeBuffer

SpecResize == InitResize /\ [][NextResize]_vars

----------------------------------------------------------------------------
(* CloseProgramAccount::invoke.  Each statement is one step: the credit of *)
(* the destination, the zeroing of the account, the resize to 0 and the    *)
(* close.  Balances are unsigned integers of a fixed width, scaled down    *)
(* from 64 bits; `+=` on them either wraps or panics, as the build's       *)
(* overflow checks decide.                                                 *)

\* The statements of invoke, in program order.
close_step_shrink_first(n) == <<"shrink", "credit", "zero", "mark">>[n]

close_step(n) == <<"credit", "zero", "shrink", "mark">>[n]

\* The value moved to the destination: the account's whole balance.
defund_amount_floor(balance) == Max(balance, 1)

defund_amount(balance) == balance

wrapping_add(a, b) == (a + b) % (MaxLamports + 1)

\* try_borrow_lamports / try_borrow_mut_lamports against the borrows that
\* are alive; `held` is "none", "shared" or "mut".
can_borrow(held) == held # "mut"

can_borrow_mut(held) == held = "none"

NoClose == [pc |-> "idle", step |-> 0, account |-> 0, destination |-> 0,
            len |-> 0, owner |-> P1, same |-> FALSE, overflow_checks |-> FALSE,
            acc_borrow |-> "none", dest_borrow |-> "none",
            data_borrowed |-> FALSE, account0 |-> 0, destination0 |-> 0,
            len0 |-> 0, owner0 |-> P1, closes |-> 0, log |-> <<>>,
            res |-> "none"]

Closed(l) == l.owner = SYSTEM_PROGRAM_ID

\* The caller invokes Close, holding whatever borrows it holds.
CloseStart ==
    /\ lc.pc \in {"idle", "done"}
    /\ lc.res # "panic"
    /\ lc.closes < MaxCloses
    /\ \E ab \in {"none", "shared", "mut"}, db \in {"none", "shared"},
          dd \in BOOLEAN :
           lc' = [lc EXCEPT !.pc = "run", !.step = 1, !.res = "none",
                            !.acc_borrow = ab,
                            !.dest_borrow = IF lc.same THEN ab ELSE db,
                            !.data_borrowed = dd,
                            !.account0 = lc.account,
                            !.destination0 = lc.destination,
                            !.len0 = lc.len, !.owner0 = lc.owner,
                            !.closes = @ + 1, !.log = <<>>]
    /\ UNCHANGED <<ai, valVars, cast, views, accRes, cpi>>

Advance(l) ==
    IF l.step = 4 THEN [l EXCEPT !.pc = "done", !.res = "Ok"]
    ELSE [l EXCEPT !.step = @ + 1]

Fail(l, err) == [l EXCEPT !.pc = "done", !.res = err]

\* *destination.try_borrow_mut_lamports()? += *account.try_borrow_lamports()?
\* The shared borrow of the account is alive while the destination is
\* borrowed mutably, so the same account on both sides cannot be borrowed.
CloseCredit ==
    /\ lc.pc = "run"
    /\ close_step(lc.step) = "credit"
    /\ \E sum \in {lc.destination + defund_amount(lc.account)} :
       lc' = IF ~can_borrow(lc.acc_borrow)
                \/ ~can_borrow_mut(IF lc.same THEN "shared" ELSE lc.dest_borrow)
             THEN Fail(lc, "AccountBorrowFailed")
             ELSE IF sum > MaxLamports /\ lc.overflow_checks
             THEN Fail(lc, "panic")
             ELSE Advance([lc EXCEPT
                      !.destination = wrapping_add(lc.destination,
                                                   defund_amount(lc.account)),
                      !.log = Append(@, "credit")])
    /\ UNCHANGED <<ai, valVars, cast, views, accRes, cpi>>

\* *account.try_borrow_mut_lamports()? = 0
CloseZero ==
    /\ lc.pc = "run"
    /\ close_step(lc.step) = "zero"
    /\ lc' = IF ~can_borrow_mut(lc.acc_borrow)
             THEN Fail(lc, "AccountBorrowFailed")
             ELSE Advance([lc EXCEPT !.account = 0,
                                     !.log = Append(@, "zero")])
    /\ UNCHANGED <<ai, valVars, cast, views, accRes, cpi>>

\* account.resize(0)?
CloseShrink ==
    /\ lc.pc = "run"
    /\ close_step(lc.step) = "shrink"
    /\ \E err \in ResizeErrs(lc.data_borrowed, lc.len, 0) :
           lc' = IF err # "" THEN Fail(lc, err)
                 ELSE Advance([lc EXCEPT !.len = 0,
                                         !.log = Append(@, "shrink")])
    /\ UNCHANGED <<ai, valVars, cast, views, accRes, cpi>>

\* account.close(): the owner, the balance and the length are zeroed.
CloseMark ==
    /\ lc.pc = "run"
    /\ close_step(lc.step) = "mark"
    /\ lc' = IF lc.data_borrowed THEN Fail(lc, "AccountBorrowFailed")
             ELSE Advance([lc EXCEPT !.owner = SYSTEM_PROGRAM_ID,
                                     !.account = 0, !.len = 0,
                                     !.log = Append(@, "mark")])
    /\ UNCHANGED <<ai, valVars, cast, views, accRes, cpi>>

CloseBalances == {0, 1, 2, MaxLamports - 1, MaxLamports}

InitClose ==
    /\ ai \in {a \in FlagAccounts : a.is_signer /\ a.is_writable /\ a.executable
                                     /\ a.data = <<>>}
    /\ v = ValidationDefault
    /\ nset = 0
    /\ runRes = NoRun
    /\ grp = NoGroup
    /\ compRes = NoComp
    /\ cast = NoCast
    /\ views = <<>>
    /\ accRes = NoAccess
    /\ \E account \in CloseBalances, destination \in CloseBalances,
          len \in 0..MaxDataLen, same \in BOOLEAN, oc \in BOOLEAN :
           /\ same => destination = account
           /\ lc = [NoClose EXCEPT !.account = account,
                                   !.destination = destination, !.len = len,
                                   !.same = same, !.overflow_checks = oc,
                                   !.account0 = account,
                                   !.destination0 = destination, !.len0 = len]
    /\ cpi = <<>>

NextClose == CloseStart \/ CloseCredit \/ CloseZero \/ CloseShrink \/ CloseMark

SpecClose == InitClose /\ [][NextClose]_vars

----------------------------------------------------------------------------
(* EmitEvent::invoke_signed.  The length check and the self-call are the   *)
(* two outcomes of an emit; cpi records the instructions handed to the     *)
(* runtime's invoke_signed.                                                *)

EMIT_EVENT_DISCRIMINATOR == 255

MAX_CPI_INSTRUCTION_DATA_LEN == 1024 - 1

\* instructions.rs:194, negated: the payload passes the length check.
emit_accepts_below_max(data) ==
    ~(Len(data) >= MAX_CPI_INSTRUCTION_DATA_LEN \/ Len(data) = 0)

emit_accepts(data) ==
    ~(Len(data) > MAX_CPI_INSTRUCTION_DATA_LEN \/ Len(data) = 0)

\* The zeroed buffer with the discriminator and the payload copied in.
emit_buf(data) ==
    [i \in 1..(1 + MAX_CPI_INSTRUCTION_DATA_LEN) |->
        IF i = 1 THEN EMIT_EVENT_DISCRIMINATOR
        ELSE IF i <= 1 + Len(data) THEN data[i - 1]
        ELSE 0]

instruction_data_whole_buf(data) == emit_buf(data)

\* from_raw_parts(buf.as_ptr(), 1 + data.len())
instruction_data(data) == SubSeq(emit_buf(data), 1, 1 + Len(data))

readonly_signer(pubkey) ==
    [pubkey |-> pubkey, is_signer |-> TRUE, is_writable |-> FALSE]

Instruction(program_id, event_authority, program, data, err) ==
    [program_id |-> program_id,
     accounts |-> <<readonly_signer(event_authority)>>,
     data |-> instruction_data(data),
     infos |-> <<event_authority, program>>,
     err |-> err]

NoEmit == [pc |-> "idle", program_id |-> P1, program |-> P1,
           event_authority |-> P1, data |-> <<>>, emits |-> 0, oks |-> 0,
           calls0 |-> 0, res |-> "none"]

\* Payloads around the two ends of the accepted range.
PayloadLens ==
    {0, 1, 2, MAX_CPI_INSTRUCTION_DATA_LEN - 1, MAX_CPI_INSTRUCTION_DATA_LEN,
     MAX_CPI_INSTRUCTION_DATA_LEN + 1}

Payloads == {[i \in 1..n |-> (7 * i + k) % 256] : n \in PayloadLens, k \in {0, 248}}

EmitStart ==
    /\ lc.pc \in {"idle", "done"}
    /\ lc.emits < MaxEmits
    /\ \E data \in Payloads :
           lc' = [lc EXCEPT !.pc = "check", !.data = data, !.emits = @ + 1,
                            !.calls0 = Len(cpi), !.res = "none"]
    /\ UNCHANGED <<ai, valVars, cast, views, accRes, cpi>>

EmitReject ==
    /\ lc.pc = "check"
    /\ ~emit_accepts(lc.data)
    /\ lc' = [lc EXCEPT !.pc = "done", !.res = "InvalidInstructionData"]
    /\ UNCHANGED <<ai, valVars, cast, views, accRes, cpi>>

EmitInvoke ==
    /\ lc.pc = "check"
    /\ emit_accepts(lc.data)
    /\ \E err \in PlainErrs :
           /\ cpi' = Append(cpi, Instruction(lc.program_id, lc.event_authority,
                                             lc.program, lc.data, err))
           /\ lc' = IF err = ""
                    THEN [lc EXCEPT !.pc = "done", !.res = "Ok", !.oks = @ + 1]
                    ELSE [lc EXCEPT !.pc = "done", !.res = err]
    /\ UNCHANGED <<ai, valVars, cast, views, accRes>>

InitEmit ==
    /\ ai \in {a \in FlagAccounts : a.is_signer /\ a.is_writable /\ a.executable
                                     /\ a.data = <<>>}
    /\ v = ValidationDefault
    /\ nset = 0
    /\ runRes = NoRun
    /\ grp = NoGroup
    /\ compRes = NoComp
    /\ cast = NoCast
    /\ views = <<>>
    /\ accRes = NoAccess
    /\ \E program_id \in Programs, program \in Programs,
          event_authority \in {derive_pda(S1, p, <<255>>).key : p \in Programs} :
           lc = [NoEmit EXCEPT !.program_id = program_id, !.program = program,
                               !.event_authority = event_authority]
    /\ cpi = <<>>

NextEmit == EmitStart \/ EmitReject \/ EmitInvoke

SpecEmit == InitEmit /\ [][NextEmit]_vars

----------------------------------------------------------------------------
(* The predicate table of the validation engine: for each predicate, when  *)
(* it is configured, the condition it checks and its failure reasons.      *)

Configured(p, b) ==
    CASE p = "is_signer" -> b.is_signer
      [] p = "is_writable" -> b.is_writable
      [] p = "is_executable" -> b.is_executable
      [] p = "is_empty" -> b.is_empty
      [] OTHER -> b[p] # <<>>

Holds(p, b, a) ==
    CASE p = "is_signer" -> a.is_signer
      [] p = "is_writable" -> a.is_writable
      [] p = "is_executable" -> a.executable
      [] p = "is_empty" -> Len(a.data) = 0
      [] p = "is_type" ->
            /\ a.owner = b.is_type[2]
            /\ Len(a.data) >= 1
            /\ a.data[1] = b.is_type[1]
      [] p = "is_program" -> a.key = b.is_program[1] /\ a.executable
      [] p = "is_sysvar" ->
            a.owner = SYSVAR_PROGRAM_ID /\ a.key = b.is_sysvar[1]
      [] p = "has_address" -> a.key = b.has_address[1]
      [] p = "has_owner" -> a.owner = b.has_owner[1]
      [] p = "has_seeds" ->
            a.key = find_program_address(b.has_seeds[1], b.has_seeds[2]).key
      [] p = "has_seeds_with_bump" ->
            /\ Len(a.data) >= 2
            /\ LET d == derive_pda(b.has_seeds_with_bump[1],
                                   b.has_seeds_with_bump[2],
                                   <<b.has_seeds_with_bump[3]>>)
               IN  d.ok /\ d.key = a.key
      [] p = "has_seeds_with_saved_bump" ->
            /\ a.owner = b.has_seeds_with_saved_bump[2]
            /\ Len(a.data) >= 2
            /\ LET d == derive_pda(b.has_seeds_with_saved_bump[1],
                                   b.has_seeds_with_saved_bump[2],
                                   <<a.data[2]>>)
               IN  d.ok /\ d.key = a.key

Reasons(p) ==
    CASE p = "is_signer" -> {"MissingRequiredSignature"}
      [] p = "is_writable" -> {"InvalidAccountData"}
      [] p = "is_executable" -> {"InvalidAccountData"}
      [] p = "is_empty" -> {"AccountAlreadyInitialized"}
      [] p = "is_type" -> {"InvalidAccountOwner", "InvalidAccountData"}
      [] p = "is_program" -> {"InvalidAccountOwner", "InvalidAccountData"}
      [] p = "is_sysvar" -> {"InvalidAccountOwner", "InvalidAccountData"}
      [] p = "has_address" -> {"InvalidAccountData"}
      [] p = "has_owner" -> {"InvalidAccountOwner"}
      [] p = "has_seeds" -> {"InvalidSeeds"}
      [] p = "has_seeds_with_bump" -> {"InvalidAccountData", "InvalidSeeds"}
      [] p = "has_seeds_with_saved_bump" ->
            {"InvalidAccountOwner", "InvalidAccountData", "InvalidSeeds"}

\* Positions in Order of the configured predicates that do not hold.
Failing(b, a) ==
    {i \in 1..Len(Order) : Configured(Order[i], b) /\ ~Holds(Order[i], b, a)}

FirstFailing(b, a) ==
    CHOOSE i \in Failing(b, a) : \A j \in Failing(b, a) : i <= j

\* The configured predicates among the first n of Order.
ConfiguredUpTo(b, n) ==
    SelectSeq(SubSeq(Order, 1, n), LAMBDA p : Configured(p, b))

\* C1: for every rule set and every account (whose data is not mutably
\* borrowed elsewhere), run returns Ok exactly when every configured
\* predicate of the table holds; otherwise it returns a failure reason of
\* the first configured predicate that fails in the fixed order, and the
\* predicates evaluated are exactly the configured ones up to that
\* predicate (none after it, so no derivation after an earlier failure).
C1_RunMatchesTable ==
    (runRes.done /\ ~ai.mut_borrowed) =>
        IF Failing(runRes.rules, ai) = {}
        THEN /\ runRes.res = "Ok"
             /\ runRes.trail = ConfiguredUpTo(runRes.rules, Len(Order))
        ELSE /\ runRes.res \in Reasons(Order[FirstFailing(runRes.rules, ai)])
             /\ runRes.trail =
                    ConfiguredUpTo(runRes.rules, FirstFailing(runRes.rules, ai))

\* C4: run never reads the account buffer at an index at or beyond its
\* length and never ends by a panic: it returns Ok or Err(reason).
C4_RunNeverOutOfBounds ==
    runRes.done =>
        /\ runRes.res # "panic"
        /\ \A i \in runRes.reads : i < Len(ai.data)

\* A rule set configured with has_seeds_with_bump and nothing else.
OnlyBump(b) ==
    /\ b.has_seeds_with_bump # <<>>
    /\ b = [ValidationDefault EXCEPT
                !.has_seeds_with_bump = b.has_seeds_with_bump]

DerivesTo(seeds, pid, bump, key) ==
    derive_pda(seeds, pid, <<bump>>).ok /\ derive_pda(seeds, pid, <<bump>>).key = key

\* Every other single-byte bump than the one that derives the account's
\* address is rejected.
OtherBumpsRejected ==
    LET r == runRes.rules.has_seeds_with_bump
    IN  \A other \in 0..255 :
            (other # r[3] /\ DerivesTo(r[1], r[2], other, ai.key))
                => runRes.res # "Ok"

\* C3 as stated: a rule set with only has_seeds_with_bump(seeds, program,
\* bump) accepts an account exactly when derive(seeds, program, bump) equals
\* the account's address, whatever its buffer length and owner, and any
\* other bump value is rejected.
C3_AcceptsIffDerived ==
    (runRes.done /\ OnlyBump(runRes.rules)) =>
        LET r == runRes.rules.has_seeds_with_bump
        IN  /\ runRes.res = "Ok" <=> DerivesTo(r[1], r[2], r[3], ai.key)
            /\ OtherBumpsRejected

\* C3 amended: a rule set with only has_seeds_with_bump(seeds, program,
\* bump) accepts an account exactly when its buffer holds at least 2 bytes
\* and derive(seeds, program, bump) equals its address, whatever its owner;
\* any other bump value is rejected.
C3_AcceptsIffInitializedAndDerived ==
    (runRes.done /\ OnlyBump(runRes.rules)) =>
        LET r == runRes.rules.has_seeds_with_bump
        IN  /\ runRes.res = "Ok" <=>
                  (Len(ai.data) >= 2 /\ DerivesTo(r[1], r[2], r[3], ai.key))
            /\ OtherBumpsRejected

\* A run of has_seeds_with_bump alone that accepts an account not owned by
\* the deriving program.
C3_Witness ==
    /\ runRes.done
    /\ OnlyBump(runRes.rules)
    /\ runRes.res = "Ok"
    /\ ai.owner # runRes.rules.has_seeds_with_bump[2]

\* C2 as stated: running the rule sets of any partition of the predicates
\* one after the other gives the same accept/reject verdict as running the
\* single rule set built by chaining all the setters on one builder, also
\* when two of the predicates are of the same kind.
C2_SplitEqualsCombined ==
    compRes.done => (compRes.combined = compRes.split)

\* C2 amended: the verdicts agree when the predicates are of pairwise
\* distinct kinds (a builder keeps one predicate per kind: a second setter
\* call of a kind replaces the first).
C2_SplitEqualsCombinedDistinctKinds ==
    (compRes.done /\ ~grp.dup) => (compRes.combined = compRes.split)

\* Three predicates of distinct kinds, split into more than one rule set,
\* all accepted.
C2_Witness ==
    /\ compRes.done
    /\ ~grp.dup
    /\ nset = 3
    /\ Cardinality(grp.kinds) = 3
    /\ grp.groups >= 1
    /\ compRes.combined
    /\ compRes.split

----------------------------------------------------------------------------
(* The zero-copy cast *)

\* The three conditions of a valid typed record.
ExactRecord(T, data, addr) ==
    /\ Len(data) = T.size
    /\ data[1] = T.disc
    /\ addr % T.align = 0

\* The cast the last TryFromBytes / TryFromBytesMut applied, on another buffer.
SameCast(data, addr) ==
    IF cast.op = "try_from_bytes" THEN try_from_bytes(cast.T, data, addr)
    ELSE try_from_bytes_mut(cast.T, data, addr)

\* The buffers that differ from the cast's buffer in their length alone.
OtherLengths ==
    {d \in DataSet \cup {Append(cast.data, b) : b \in ByteVals} :
        /\ Len(d) # Len(cast.data)
        /\ \A i \in 1..Len(d) : i <= Len(cast.data) => d[i] = cast.data[i]}

\* C5: try_from_bytes and try_from_bytes_mut succeed if and only if the
\* buffer has T's exact size, byte 0 is T's discriminator and the start is
\* aligned for T; every failure is InvalidAccountData; the checks are made
\* in the order length, discriminator, alignment, and byte 0 is read only
\* after the length check passed; from a succeeding buffer, changing the
\* length, byte 0 or the alignment alone makes the cast fail.
C5_CastIffExactRecord ==
    cast.done =>
        /\ cast.res = "Ok" <=> ExactRecord(cast.T, cast.data, cast.addr)
        /\ cast.res \in {"Ok", "InvalidAccountData"}
        /\ \A i \in cast.reads : i < Len(cast.data)
        /\ Len(cast.data) # cast.T.size =>
              cast.msg = "Account has wrong length" /\ cast.reads = {}
        /\ (Len(cast.data) = cast.T.size /\ cast.data[1] # cast.T.disc) =>
              cast.msg = "Account has wrong discriminator"
        /\ (Len(cast.data) = cast.T.size /\ cast.data[1] = cast.T.disc
                /\ cast.addr % cast.T.align # 0) =>
              cast.msg = "Account has wrong alignment"
        /\ cast.res = "Ok" =>
              /\ \A d \in OtherLengths :
                     SameCast(d, cast.addr).res = "InvalidAccountData"
              /\ \A b \in 0..255 :
                     b # cast.data[1] =>
                        SameCast([cast.data EXCEPT ![1] = b], cast.addr).res
                            = "InvalidAccountData"
              /\ \A a \in 0..(MaxAddr + 8) :
                     a % cast.T.align # 0 =>
                        SameCast(cast.data, a).res = "InvalidAccountData"

\* A mutable cast of a 2-aligned record that succeeds.
C5_Witness ==
    /\ cast.done
    /\ cast.op = "try_from_bytes_mut"
    /\ cast.res = "Ok"
    /\ cast.T.align = 2
    /\ OtherLengths # {}

----------------------------------------------------------------------------
(* The typed views *)

IsAccess == accRes.op \in {"as_account", "as_account_mut"}

\* C6: as_account / as_account_mut on an account whose owner differs from
\* the expected program fail with InvalidAccountOwner before the buffer is
\* borrowed and before any byte is read or cast; no view is ever held for
\* a program that does not own the account.
C6_OwnerCheckedBeforeCast ==
    /\ (IsAccess /\ accRes.program # ai.owner) =>
          /\ accRes.res = "InvalidAccountOwner"
          /\ ~accRes.borrowed
          /\ ~accRes.casted
    /\ \A i \in 1..Len(views) : views[i].program = ai.owner

\* A rejected access to an account of another owner whose bytes would have
\* passed the cast.
C6_Witness ==
    /\ accRes.op = "as_account_mut"
    /\ accRes.res = "InvalidAccountOwner"
    /\ accRes.program # ai.owner
    /\ ExactRecord(accRes.T, ai.data, ai.addr)

\* C7: as_account / as_account_mut on an account owned by the expected
\* program (and not blocked by a conflicting borrow) succeed when the buffer
\* is an exact record of T, and otherwise return InvalidAccountData as an
\* error value: they never panic.
C7_CastFailureReturned ==
    (IsAccess /\ accRes.program = ai.owner
        /\ accRes.res # "AccountBorrowFailed") =>
        IF ExactRecord(accRes.T, ai.data, ai.addr)
        THEN accRes.res = "Ok"
        ELSE accRes.res = "InvalidAccountData"

MutViews == {i \in 1..Len(views) : views[i].kind = "mut"}

BorrowDiscipline ==
    /\ Cardinality(MutViews) <= 1
    /\ MutViews # {} => Len(views) = 1

ConflictingAttempt ==
    \/ AsAccountMut /\ views # <<>>
    \/ AsAccount /\ MutViews # {}

\* C8: at most one mutable view exists at a time and it never coexists
\* with a shared view; an as_account_mut attempted while any view is held,
\* and an as_account attempted while a mutable view is held, return an
\* error (AccountBorrowFailed from the borrow when the owner check passes)
\* and leave the views and the account, its buffer included, unchanged.
C8_BorrowDiscipline ==
    /\ []BorrowDiscipline
    /\ [][ConflictingAttempt =>
            /\ accRes'.res \in {"AccountBorrowFailed", "InvalidAccountOwner"}
            /\ accRes'.program = ai.owner => accRes'.res = "AccountBorrowFailed"
            /\ views' = views
            /\ ai' = ai]_vars

\* A mutable access refused while a shared view is held.
C8_Witness ==
    /\ accRes.op = "as_account_mut"
    /\ accRes.res = "AccountBorrowFailed"
    /\ Len(views) = 1
    /\ views[1].kind = "shared"

----------------------------------------------------------------------------
(* CreateProgramAccount *)

RentFloor == Max(minimum_balance(lc.rate, lc.space), 1)

\* The calls (without their outcome) a Create issues for a prior balance b.
ExpectedCalls(b, m, space, owner) ==
    IF b = 0
    THEN <<[call |-> "create", lamports |-> m, space |-> space, owner |-> owner]>>
    ELSE (IF b < m
          THEN <<[call |-> "transfer", lamports |-> m - b, space |-> 0,
                  owner |-> SYSTEM_PROGRAM_ID]>>
          ELSE <<>>)
         \o <<[call |-> "allocate", lamports |-> 0, space |-> space,
               owner |-> SYSTEM_PROGRAM_ID],
              [call |-> "assign", lamports |-> 0, space |-> 0, owner |-> owner]>>

Issued ==
    [i \in 1..Len(cpi) |->
        [call |-> cpi[i].call, lamports |-> cpi[i].lamports,
         space |-> cpi[i].space, owner |-> cpi[i].owner]]

IsPrefix(s, t) == Len(s) <= Len(t) /\ s = SubSeq(t, 1, Len(s))

\* C9: with b the target's prior balance and m = max(rent_minimum(space), 1),
\* the calls issued are, in this order: if b = 0 one create call with value
\* m, length space and the requested owner, and nothing else; if b > 0, no
\* create, one transfer of m - b when b < m (none when b >= m), then
\* allocate(space), then assign(owner).  A Create that returns Ok has issued
\* exactly these calls, and at every point the calls issued are a prefix.
C9_CreateCalls ==
    lc.pc # "idle" =>
        /\ IsPrefix(Issued, ExpectedCalls(lc.pda0, RentFloor, lc.space, lc.new_owner))
        /\ (lc.pc = "done" /\ lc.res = "Ok") =>
              Issued = ExpectedCalls(lc.pda0, RentFloor, lc.space, lc.new_owner)

\* A pre-funded target topped up by one transfer, then allocated, then assigned.
C9_Witness ==
    /\ lc.pc = "done"
    /\ lc.res = "Ok"
    /\ lc.pda0 = 1
    /\ Len(cpi) = 3
    /\ cpi[1].call = "transfer"
    /\ cpi[1].lamports = RentFloor - 1
    /\ cpi[1].lamports > 1

Failed == {i \in 1..Len(cpi) : cpi[i].err # ""}

\* C10: Create on a pre-funded account is not rolled back.  A failed call is
\* the last call issued and Create returns its error unchanged; when the
\* top-up transfer succeeded and allocate or assign failed, the transferred
\* value is on the target and is not returned to the payer; when the
\* transfer failed, neither allocate nor assign was attempted.
C10_NoRollback ==
    (lc.pda0 > 0 /\ Failed # {}) =>
        /\ Failed = {Len(cpi)}
        /\ lc.pc = "done"
        /\ lc.res = cpi[Len(cpi)].err
        /\ (cpi[1].call = "transfer" /\ cpi[1].err = "") =>
              /\ lc.pda = lc.pda0 + cpi[1].lamports
              /\ lc.payer = lc.payer0 - cpi[1].lamports
        /\ (cpi[1].call = "transfer" /\ cpi[1].err # "") =>
              /\ Len(cpi) = 1
              /\ lc.pda = lc.pda0
              /\ lc.payer = lc.payer0

\* The transfer succeeded, allocate failed, and the value stayed on the target.
C10_Witness ==
    /\ lc.pc = "done"
    /\ Len(cpi) = 2
    /\ cpi[1].call = "transfer"
    /\ cpi[1].err = ""
    /\ cpi[2].call = "allocate"
    /\ cpi[2].err # ""
    /\ lc.pda > lc.pda0

----------------------------------------------------------------------------
(* ResizeProgramAccount *)

\* C11: a Resize on an account whose owner is not the calling program fails
\* with IllegalOwner and changes nothing: no transfer is issued, the payer's
\* and the account's balances, and the buffer's length and bytes, are as
\* they were.
C11_ResizeForeignOwner ==
    (lc.pc # "idle" /\ lc.owner # lc.program) =>
        /\ lc.pc = "done"
        /\ lc.res = "IllegalOwner"
        /\ cpi = <<>>
        /\ lc.payer = lc.payer0
        /\ lc.pda = lc.pda0
        /\ lc.data = lc.data0

\* A foreign-owned account that a Resize would otherwise have topped up and
\* grown.
C11_Witness ==
    /\ lc.pc = "done"
    /\ lc.res = "IllegalOwner"
    /\ lc.owner # lc.program
    /\ lc.space > Len(lc.data0)
    /\ lc.pda0 < Max(minimum_balance(lc.rate, lc.space), 1)
    /\ lc.payer0 >= Max(minimum_balance(lc.rate, lc.space), 1)

ResizeFloor(n) == Max(minimum_balance(lc.rate, n), 1)

ResizeFunded ==
    /\ Len(lc.data) # Len(lc.data0) => lc.pda >= ResizeFloor(Len(lc.data))
    /\ (lc.pc = "done" /\ lc.res = "Ok") =>
          /\ Len(lc.data) = lc.space
          /\ lc.pda >= ResizeFloor(lc.space)
    /\ (cpi # <<>> /\ cpi[1].err # "") =>
          /\ lc.pc = "done"
          /\ lc.res = cpi[1].err
          /\ lc.data = lc.data0

TransferBeforeResize ==
    /\ cpi' # cpi => (lc.data = lc.data0 /\ lc'.data = lc.data0)
    /\ lc'.data # lc.data => lc'.pda = lc.pda

\* C12: Resize never leaves the account below the rent-exempt minimum of its
\* new size.  In every state in which Resize has changed the buffer length
\* to n the balance is at least max(rent_minimum(n), 1); the top-up transfer
\* is issued while the buffer still is as it was, and when the transfer
\* fails the buffer stays unchanged.
C12_ResizeKeepsRentFloor ==
    /\ []ResizeFunded
    /\ [][TransferBeforeResize]_vars

\* A short account topped up by one transfer and then grown.
C12_Witness ==
    /\ lc.pc = "done"
    /\ lc.res = "Ok"
    /\ Len(lc.data) > Len(lc.data0)
    /\ Len(cpi) = 1
    /\ cpi[1].err = ""
    /\ lc.pda0 < ResizeFloor(lc.space)
    /\ lc.pda = ResizeFloor(lc.space)

----------------------------------------------------------------------------
(* CloseProgramAccount *)

CloseOrder == <<"credit", "zero", "shrink", "mark">>

AlreadyClosed ==
    /\ lc.pc # "idle"
    /\ lc.owner0 = SYSTEM_PROGRAM_ID
    /\ lc.account0 = 0
    /\ lc.len0 = 0

\* C14: a second Close on an account that is already zero-balance, empty
\* and marked closed returns Ok or AccountBorrowFailed, never takes a
\* balance below zero, and leaves the destination's balance and the closed
\* account's balance, length and closed marker as they were.
C14_SecondCloseHarmless ==
    /\ lc.account >= 0
    /\ lc.destination >= 0
    /\ AlreadyClosed =>
          /\ lc.destination = lc.destination0
          /\ lc.account = 0
          /\ lc.len = 0
          /\ Closed(lc)
          /\ lc.res \in {"none", "Ok", "AccountBorrowFailed"}

\* The second Close of an account that held value ran to its end.
C14_Witness ==
    /\ AlreadyClosed
    /\ lc.closes = 2
    /\ lc.pc = "done"
    /\ lc.res = "Ok"
    /\ lc.destination > 0
    /\ lc.log = CloseOrder

\* C17: Close conserves value.  After a successful Close the destination's
\* balance is its prior balance plus the account's prior balance, not that
\* sum modulo the balance's width, and the account's balance is 0; when the
\* account and the destination are the same account the Close fails with
\* the balance unchanged, or leaves the total unchanged.
C17_CloseConservesValue ==
    /\ (lc.pc = "done" /\ lc.res = "Ok" /\ ~lc.same) =>
          /\ lc.destination = lc.destination0 + lc.account0
          /\ lc.account = 0
    /\ (lc.pc = "done" /\ lc.same) =>
          \/ lc.res # "Ok" /\ lc.account = lc.account0
          \/ lc.res = "Ok" /\ lc.account = lc.account0

----------------------------------------------------------------------------
(* EmitEvent *)

CallsOfEmit == SubSeq(cpi, lc.calls0 + 1, Len(cpi))

\* C15: an emit accepts its payload exactly when 1 <= len(data) <= 1023.  An
\* accepted payload, one of exactly 1023 bytes included, is passed to the
\* self-call; an empty payload and one of 1024 bytes or more fail with
\* InvalidInstructionData and no self-call is issued.
C15_EmitLengthLimits ==
    lc.pc = "done" =>
        IF 1 <= Len(lc.data) /\ Len(lc.data) <= 1023
        THEN /\ lc.res # "InvalidInstructionData"
             /\ Len(CallsOfEmit) = 1
             /\ SubSeq(CallsOfEmit[1].data, 2, Len(CallsOfEmit[1].data)) = lc.data
        ELSE /\ lc.res = "InvalidInstructionData"
             /\ CallsOfEmit = <<>>

\* A payload of the maximum length emitted after one a byte too long and an
\* empty one were rejected.
C15_Witness ==
    /\ lc.pc = "done"
    /\ lc.res = "Ok"
    /\ Len(lc.data) = 1023
    /\ lc.emits = MaxEmits
    /\ Len(cpi) = 1
    /\ Len(cpi[1].data) = 1024

SelfCallOk(c) ==
    /\ c.program_id = lc.program_id
    /\ Len(c.data) >= 2
    /\ c.data[1] = 255
    /\ c.accounts = <<[pubkey |-> lc.event_authority, is_signer |-> TRUE,
                       is_writable |-> FALSE]>>

\* C16: every self-call of an emit targets the program's identity, carries
\* 1 + len(data) bytes of which byte 0 is 255 and the rest is data
\* unchanged, and names the event authority, and only it, as a read-only
\* signer; a successful emit has issued exactly one such call, and the
\* successful emits are as many as the calls that succeeded.
C16_SelfCallShape ==
    /\ \A i \in 1..Len(cpi) : SelfCallOk(cpi[i])
    /\ lc.oks = Cardinality({i \in 1..Len(cpi) : cpi[i].err = ""})
    /\ (lc.pc = "done" /\ lc.res = "Ok") =>
          /\ Len(CallsOfEmit) = 1
          /\ Len(CallsOfEmit[1].data) = 1 + Len(lc.data)
          /\ CallsOfEmit[1].data = <<255>> \o lc.data
          /\ CallsOfEmit[1].err = ""

\* Two events emitted, the second shorter than the first.
C16_Witness ==
    /\ lc.pc = "done"
    /\ lc.res = "Ok"
    /\ lc.oks = 2
    /\ Len(cpi) = 2
    /\ Len(cpi[2].data) = 3
    /\ Len(cpi[1].data) = 1023
    /\ cpi[2].data # SubSeq(cpi[1].data, 1, 3)

====
